---- MODULE Spec2Model ----
(***************************************************************************)
(* A model of win-ime-switch: the language identifier (src/lang.rs), the   *)
(* layout state store and layout switcher (src/win.rs) and the command     *)
(* dispatcher (src/main.rs).                                               *)
(*                                                                         *)
(* Text is a sequence of one-character strings.  Unsigned integers are     *)
(* little-endian sequences of 16-bit limbs (two limbs for u32, four for    *)
(* u64 and for a layout handle), so that 32- and 64-bit overflow is exact. *)
(***************************************************************************)
EXTENDS Integers, Sequences, FiniteSets, TLC

VARIABLES
    file,       \* the persisted state file: NoFile or Some(its text)
    active,     \* the layout of the foreground window's thread (a handle)
    installed,  \* the installed layouts, in enumeration order
    pending,    \* layout-change requests posted to the foreground window
    last,       \* what the last command did (its argument, its OS calls, its result)
    undo,       \* progress of a language command followed by a toggle
    input,      \* the argument of the function under study
    output      \* its result, once it has returned

vars == <<file, active, installed, pending, last, undo, input, output>>

\* An optional value is a sequence of at most one element.
None == <<>>
Some(v) == <<v>>
IsSome(o) == Len(o) = 1
Get(o) == o[1]

NoFile == None

----------------------------------------------------------------------------
(* Bounds of the model. *)

MaxLen == 3         \* longest text drawn from the small alphabet
MaxInstalled == 1   \* most installed layouts of the desktop the program runs on
MaxPending == 1     \* most requests in flight
MaxLayouts == 2     \* most layouts in the enumeration given to switch_input_method

----------------------------------------------------------------------------
(* Fixed-width unsigned arithmetic. *)

Limb == 65536
U32Limbs == 2
U64Limbs == 4

Zero(w) == [i \in 1..w |-> 0]

\* n * radix + d on w limbs, from limb i on with carry c; the result keeps
\* the carry out of the top limb (checked_mul / checked_add overflow).
RECURSIVE MulAddFrom(_, _, _, _)
MulAddFrom(n, radix, c, i) ==
    IF i > Len(n) THEN [val |-> <<>>, carry |-> c]
    ELSE LET t == n[i] * radix + c
             rest == MulAddFrom(n, radix, t \div Limb, i + 1)
         IN [val |-> <<t % Limb>> \o rest.val, carry |-> rest.carry]

MulAdd(n, radix, d) == MulAddFrom(n, radix, d, 1)

\* n divided by a radix that fits a limb: quotient and remainder, from the
\* top limb down.
RECURSIVE DivModFrom(_, _, _, _)
DivModFrom(n, radix, r, i) ==
    IF i = 0 THEN [val |-> <<>>, rem |-> r]
    ELSE LET t == r * Limb + n[i]
             rest == DivModFrom(n, radix, t % radix, i - 1)
         IN [val |-> rest.val \o <<t \div radix>>, rem |-> rest.rem]

DivMod(n, radix) == DivModFrom(n, radix, 0, Len(n))

\* `x as u32` of a 64-bit value: the low two limbs.
AsU32(n) == SubSeq(n, 1, U32Limbs)

\* A small number as a u32.
U32(k) == <<k % Limb, k \div Limb>>

\* The null handle: HKL::is_invalid.
NullHKL == Zero(U64Limbs)

----------------------------------------------------------------------------
(* Characters and the standard library's number parsing and formatting. *)

LowerDigits == <<"0", "1", "2", "3", "4", "5", "6", "7", "8", "9",
                 "a", "b", "c", "d", "e", "f">>
UpperDigits == <<"0", "1", "2", "3", "4", "5", "6", "7", "8", "9",
                 "A", "B", "C", "D", "E", "F">>

UpperLetters == <<"A", "B", "C", "D", "E", "F", "G", "H", "I", "J", "K", "L", "M",
                  "N", "O", "P", "Q", "R", "S", "T", "U", "V", "W", "X", "Y", "Z">>
LowerLetters == <<"a", "b", "c", "d", "e", "f", "g", "h", "i", "j", "k", "l", "m",
                  "n", "o", "p", "q", "r", "s", "t", "u", "v", "w", "x", "y", "z">>

\* char::to_digit(radix): the digit's value, or -1.
ToDigit(c, radix) ==
    IF \E i \in 1..radix : LowerDigits[i] = c
    THEN (CHOOSE i \in 1..radix : LowerDigits[i] = c) - 1
    ELSE IF \E i \in 1..radix : UpperDigits[i] = c
    THEN (CHOOSE i \in 1..radix : UpperDigits[i] = c) - 1
    ELSE -1

\* str::to_lowercase on the characters of the model.
LowerChar(c) ==
    IF \E i \in 1..Len(UpperLetters) : UpperLetters[i] = c
    THEN LowerLetters[CHOOSE i \in 1..Len(UpperLetters) : UpperLetters[i] = c]
    ELSE c

to_lowercase(s) == [i \in 1..Len(s) |-> LowerChar(s[i])]

strip_prefix(s, p) ==
    IF Len(s) >= Len(p) /\ SubSeq(s, 1, Len(p)) = p
    THEN [some |-> TRUE, rest |-> SubSeq(s, Len(p) + 1, Len(s))]
    ELSE [some |-> FALSE, rest |-> <<>>]

Ok(v) == [ok |-> TRUE, val |-> v]
Err(e) == [ok |-> FALSE, err |-> e]

\* The digit loop of from_str_radix: acc * radix + digit, checked.
RECURSIVE ParseDigits(_, _, _, _)
ParseDigits(s, radix, acc, i) ==
    IF i > Len(s) THEN Ok(acc)
    ELSE LET d == ToDigit(s[i], radix)
         IN IF d < 0 THEN Err("InvalidDigit")
            ELSE LET r == MulAdd(acc, radix, d)
                 IN IF r.carry # 0 THEN Err("PosOverflow")
                    ELSE ParseDigits(s, radix, r.val, i + 1)

\* uN::from_str_radix(s, radix) on w limbs: an optional "+", then digits.
from_str_radix(s, radix, w) ==
    IF Len(s) = 0 THEN Err("Empty")
    ELSE IF Len(s) = 1 /\ s[1] \in {"+", "-"} THEN Err("InvalidDigit")
    ELSE IF s[1] = "+" THEN ParseDigits(Tail(s), radix, Zero(w), 1)
    ELSE ParseDigits(s, radix, Zero(w), 1)

IsZero(n) == \A i \in 1..Len(n) : n[i] = 0

\* format!("{:X}", n): upper-case hexadecimal digits, most significant
\* first, no prefix, no leading zero, "0" for zero.
RECURSIVE FormatDigits(_, _)
FormatDigits(n, radix) ==
    IF IsZero(n) THEN <<>>
    ELSE LET qr == DivMod(n, radix)
         IN FormatDigits(qr.val, radix) \o <<UpperDigits[qr.rem + 1]>>

\* A variant: the alternate form "{:#X}", which writes a 0x prefix.
format_X_Prefixed(n) ==
    <<"0", "x">> \o (IF IsZero(n) THEN <<"0">> ELSE FormatDigits(n, 16))

format_X(n) == IF IsZero(n) THEN <<"0">> ELSE FormatDigits(n, 16)

----------------------------------------------------------------------------
(* src/lang.rs: the language identifier. *)

EN == [tag |-> "EN"]
ZH == [tag |-> "ZH"]
Zhtw == [tag |-> "Zhtw"]
JA == [tag |-> "JA"]
KO == [tag |-> "KO"]
FR == [tag |-> "FR"]
DE == [tag |-> "DE"]
Other(v) == [tag |-> "Other", v |-> v]

\* The discriminants of the enum.
Discriminant(id) ==
    CASE id = EN -> U32(1033)
      [] id = ZH -> U32(2052)
      [] id = Zhtw -> U32(1028)
      [] id = JA -> U32(1041)
      [] id = KO -> U32(1042)
      [] id = FR -> U32(1036)
      [] id = DE -> U32(1031)
      [] OTHER -> id.v

\* impl From<u32> for LangID
FromU32(value) ==
    CASE value = U32(1033) -> EN
      [] value = U32(2052) -> ZH
      [] value = U32(1028) -> Zhtw
      [] value = U32(1041) -> JA
      [] value = U32(1042) -> KO
      [] value = U32(1036) -> FR
      [] value = U32(1031) -> DE
      [] OTHER -> Other(value)

Unsupported(s) == [ok |-> FALSE, err |-> "Unsupported", text |-> s]

\* The match on the lower-cased tag, with the decimal fallback.
TryFromTag(s) ==
    LET l == to_lowercase(s)
    IN CASE l = <<"e", "n">> -> Ok(EN)
         [] l \in {<<"z", "h">>, <<"z", "h", "-", "c", "n">>} -> Ok(ZH)
         [] l = <<"z", "h", "-", "t", "w">> -> Ok(Zhtw)
         [] l \in {<<"j", "a">>, <<"j", "p">>} -> Ok(JA)
         [] l = <<"k", "o">> -> Ok(KO)
         [] l = <<"f", "r">> -> Ok(FR)
         [] l = <<"d", "e">> -> Ok(DE)
         [] OTHER ->
              LET num == from_str_radix(s, 10, U32Limbs)
              IN IF num.ok THEN Ok(FromU32(num.val)) ELSE Unsupported(s)

\* A variant: the hexadecimal branch returns Other(num & 0xFFFF).
TryFrom_Masked(s) ==
    LET p == strip_prefix(s, <<"0", "x">>)
        num == from_str_radix(p.rest, 16, U32Limbs)
    IN IF p.some /\ num.ok THEN Ok(Other(<<num.val[1], 0>>)) ELSE TryFromTag(s)

\* impl TryFrom<&str> for LangID
TryFrom(s) ==
    LET p == strip_prefix(s, <<"0", "x">>)
        num == from_str_radix(p.rest, 16, U32Limbs)
    IN IF p.some /\ num.ok THEN Ok(FromU32(num.val)) ELSE TryFromTag(s)

----------------------------------------------------------------------------
(* src/win.rs and src/main.rs: the layout state store and the switcher.    *)
(*                                                                         *)
(* A function takes the state it works on, st = [file, pending, ops], and  *)
(* the outcomes e of the OS calls it makes, and returns the new state and  *)
(* its result.  ops is the trace of the OS calls made, in order.           *)

OsCalls == {"fgQuery", "fgToggle", "fgPost", "postOk", "writeOk", "enumOk", "countSame"}

AllOk == [ fgQuery |-> TRUE,    \* a foreground window exists at the layout query of main
           fgToggle |-> TRUE,   \* and at the layout query of toggle_layout
           fgPost |-> TRUE,     \* a foreground window exists at the post
           postOk |-> TRUE,     \* PostMessageW succeeds
           writeOk |-> TRUE,    \* fs::write succeeds
           truncated |-> FALSE, \* a failed fs::write has emptied the file
           enumOk |-> TRUE,     \* GetKeyboardLayoutList(None) reports the layouts
           countSame |-> TRUE ] \* the second GetKeyboardLayoutList agrees

\* Every function returns at its first failed call (each call is followed
\* by ?), so the outcomes of one run are: no call fails, or one does.
OutcomesOf(calls) ==
    {AllOk} \cup {[AllOk EXCEPT ![c] = FALSE] : c \in calls}
            \cup {[AllOk EXCEPT !.writeOk = FALSE, !.truncated = TRUE] :
                     c \in calls \cap {"writeOk"}}

Outcomes == OutcomesOf(OsCalls)

Log(st, op) == [st EXCEPT !.ops = Append(@, op)]

Return(st, res) == [st |-> st, res |-> res]

Unit == <<>>

\* InputMethodManager::save_current_layout
save_current_layout(st, hkl, e) ==
    LET data == format_X(hkl)
    IN IF e.writeOk
       THEN Return(Log([st EXCEPT !.file = Some(data)], "write"), Ok(Unit))
       ELSE Return(Log([st EXCEPT !.file = IF e.truncated
                                            THEN Some(<<>>) ELSE @],
                       "write_failed"),
                   Err("E_FAIL"))

\* InputMethodManager::load_saved_layout
load_saved_layout(st) ==
    IF ~IsSome(st.file) THEN Return(Log(st, "read_failed"), Err("E_FAIL"))
    ELSE LET hkl_value == from_str_radix(Get(st.file), 16, U64Limbs)
         IN IF hkl_value.ok THEN Return(Log(st, "read"), Ok(hkl_value.val))
            ELSE Return(Log(st, "read"), Err("E_INVALIDARG"))

\* InputMethodManager::get_current_layout; fg tells whether
\* GetForegroundWindow finds a window.
get_current_layout(st, fg, hkl) ==
    IF ~fg THEN Return(Log(st, "no_window"), Err("win32"))
    ELSE IF hkl = NullHKL THEN Return(Log(st, "query"), Err("win32"))
    ELSE Return(Log(st, "query"), Ok(hkl))

\* switch_to_layout; switch_input_method repeats these steps inline.
switch_to_layout(st, hkl, e) ==
    IF ~e.fgPost THEN Return(Log(st, "no_window"), Err("win32"))
    ELSE IF ~e.postOk THEN Return(Log(st, "post_failed"), Err("win32"))
    ELSE Return(Log([st EXCEPT !.pending = Append(@, hkl)], "post"), Ok(Unit))

\* The two GetKeyboardLayoutList calls of switch_input_method and print_langs.
keyboard_layout_list(st, e, layouts) ==
    IF ~e.enumOk \/ Len(layouts) = 0 THEN Return(Log(st, "enum_failed"), Err("win32"))
    ELSE IF ~e.countSame THEN Return(Log(Log(st, "enum"), "enum_failed"), Err("E_INVALIDARG"))
    ELSE Return(Log(Log(st, "enum"), "enum"), Ok(layouts))

\* A variant: the mask is forgotten.
LowWord_Unmasked(hkl) == AsU32(hkl)

\* (hkl.0 as u32) & 0xFFFF
LowWord(hkl) == <<AsU32(hkl)[1], 0>>

\* Iterator::find over the layouts: the first one among those the closure
\* accepts.
Find(layouts, accepted) ==
    IF \E i \in 1..Len(layouts) : layouts[i] \in accepted
    THEN Some(layouts[CHOOSE i \in 1..Len(layouts) :
                        /\ layouts[i] \in accepted
                        /\ \A j \in 1..(i - 1) : layouts[j] \notin accepted])
    ELSE None

\* Steps 1 to 5 of switch_input_method, given the layouts that the closure
\* of step 3 accepts.
SwitchToFound(st, e, layouts, accepted) ==
    LET list == keyboard_layout_list(st, e, layouts)
        english_layout == Find(list.res.val, accepted)
    IN IF ~list.res.ok THEN list
       ELSE IF ~IsSome(english_layout) THEN Return(list.st, Err("E_FAIL"))
       ELSE switch_to_layout(list.st, Get(english_layout), e)

\* src/win.rs switch_input_method
switch_input_method(st, lang_id, e, layouts) ==
    SwitchToFound(st, e, layouts,
                  {layouts[i] : i \in {j \in 1..Len(layouts) :
                                         lang_id = FromU32(LowWord(layouts[j]))}})

\* src/main.rs switch_input_method, on its two-variant LangID
switch_input_method_bin(st, lang_id, e, layouts) ==
    SwitchToFound(st, e, layouts,
                  {layouts[i] : i \in {j \in 1..Len(layouts) :
                                         LowWord(layouts[j]) = Discriminant(lang_id)}})

\* A variant: the layout switched to is saved, not the one left.
toggle_layout_SavesTarget(st, e, hkl) ==
    LET current_hkl == get_current_layout(st, e.fgToggle, hkl)
        saved_hkl == load_saved_layout(current_hkl.st)
        switched == switch_to_layout(saved_hkl.st, saved_hkl.res.val, e)
    IN IF ~current_hkl.res.ok THEN current_hkl
       ELSE IF ~saved_hkl.res.ok THEN saved_hkl
       ELSE IF ~switched.res.ok THEN switched
       ELSE save_current_layout(switched.st, saved_hkl.res.val, e)

\* A variant: the current layout is saved before the request is posted.
toggle_layout_SavesFirst(st, e, hkl) ==
    LET current_hkl == get_current_layout(st, e.fgToggle, hkl)
        saved_hkl == load_saved_layout(current_hkl.st)
        saved == save_current_layout(saved_hkl.st, current_hkl.res.val, e)
    IN IF ~current_hkl.res.ok THEN current_hkl
       ELSE IF ~saved_hkl.res.ok THEN saved_hkl
       ELSE IF ~saved.res.ok THEN saved
       ELSE switch_to_layout(saved.st, saved_hkl.res.val, e)

\* toggle_layout; each ? returns the error at once.
toggle_layout(st, e, hkl) ==
    LET current_hkl == get_current_layout(st, e.fgToggle, hkl)
        saved_hkl == load_saved_layout(current_hkl.st)
        switched == switch_to_layout(saved_hkl.st, saved_hkl.res.val, e)
    IN IF ~current_hkl.res.ok THEN current_hkl
       ELSE IF ~saved_hkl.res.ok THEN saved_hkl
       ELSE IF ~switched.res.ok THEN switched
       ELSE save_current_layout(switched.st, current_hkl.res.val, e)

\* print_langs: the identifiers printed, in order.
print_langs(st, e, layouts) ==
    LET list == keyboard_layout_list(st, e, layouts)
    IN IF ~list.res.ok THEN list
       ELSE Return(list.st,
                   Ok([i \in 1..Len(list.res.val) |->
                          FromU32(LowWord(list.res.val[i]))]))

\* The result of a command that prints nothing.
Silent(r) == IF r.res.ok THEN Return(r.st, Ok("")) ELSE r

\* The name --current prints.
CurrentName(current_hkl) ==
    CASE LowWord(current_hkl) = U32(1033) -> "en"
      [] LowWord(current_hkl) = U32(2052) -> "zh"
      [] OTHER -> "other"

\* A variant: a language argument saves after the switch.
SaveAndSwitch_SavesAfter(st, lang_id, e, current_hkl, layouts) ==
    LET switched == switch_input_method_bin(st, lang_id, e, layouts)
    IN IF ~switched.res.ok THEN switched
       ELSE Silent(save_current_layout(switched.st, current_hkl, e))

\* A language argument: the save, then the switch.
SaveAndSwitch(st, lang_id, e, current_hkl, layouts) ==
    LET saved == save_current_layout(st, current_hkl, e)
    IN IF ~saved.res.ok THEN saved
       ELSE Silent(switch_input_method_bin(saved.st, lang_id, e, layouts))

\* A variant: a language argument switches without saving.
Dispatch_NoSave(st, arg, e, current_hkl, layouts) ==
    CASE arg = Some("en") -> Silent(switch_input_method_bin(st, EN, e, layouts))
      [] arg = Some("zh") -> Silent(switch_input_method_bin(st, ZH, e, layouts))
      [] arg = Some("--toggle") -> Silent(toggle_layout(st, e, current_hkl))
      [] arg = Some("--current") -> Return(st, Ok(CurrentName(current_hkl)))
      [] OTHER -> Return(st, Ok("usage"))

\* The match of main on the first argument; an Ok result carries what the
\* command has printed.
Dispatch(st, arg, e, current_hkl, layouts) ==
    CASE arg = Some("en") -> SaveAndSwitch(st, EN, e, current_hkl, layouts)
      [] arg = Some("zh") -> SaveAndSwitch(st, ZH, e, current_hkl, layouts)
      [] arg = Some("--toggle") -> Silent(toggle_layout(st, e, current_hkl))
      [] arg = Some("--current") -> Return(st, Ok(CurrentName(current_hkl)))
      [] OTHER -> Return(st, Ok("usage"))

\* A variant: the save is hoisted above the match, so every command saves.
main_SavesFirst(st, arg, e, hkl, layouts) ==
    LET current_hkl == get_current_layout(st, e.fgQuery, hkl)
        saved == save_current_layout(current_hkl.st, current_hkl.res.val, e)
    IN IF ~current_hkl.res.ok THEN current_hkl
       ELSE IF ~saved.res.ok THEN saved
       ELSE Dispatch(saved.st, arg, e, current_hkl.res.val, layouts)

\* main: the layout query, then the match on the argument.
main(st, arg, e, hkl, layouts) ==
    LET current_hkl == get_current_layout(st, e.fgQuery, hkl)
    IN IF ~current_hkl.res.ok THEN current_hkl
       ELSE Dispatch(current_hkl.st, arg, e, current_hkl.res.val, layouts)

\* The exit status of the process for the result of main.
ExitStatus(res) == IF res.ok THEN 0 ELSE 1

----------------------------------------------------------------------------
(* The program run command after command on one desktop. *)

H_EN == <<1033, 1033, 0, 0>>            \* 0x04090409
H_ZH == <<2052, 2052, 0, 0>>            \* 0x08040804
H_IME == <<2052, 57376, 65535, 65535>>  \* 0xFFFFFFFFE0200804

Handles == {H_EN, H_ZH, H_IME}

RECURSIVE Orders(_, _)
Orders(S, n) ==
    IF n = 0 THEN {<<>>}
    ELSE LET shorter == Orders(S, n - 1)
         IN shorter \cup {Append(q, h) : q \in {r \in shorter : Len(r) = n - 1}, h \in S}

\* Enumerations of distinct installed layouts.
Enumerations == {q \in Orders(Handles, MaxInstalled) :
                   \A i, j \in 1..Len(q) : i # j => q[i] # q[j]}

\* What the state file may hold before the first command.
InitialFiles ==
    { NoFile, Some(<<>>), Some(<<"z", "h">>), Some(format_X(H_ZH)),
      Some(<<"+", "4", "0", "9", "0", "4", "0", "9">>) }

\* The OS calls a run with the argument may reach; the outcomes of the
\* others cannot show.
CallsOf(arg) ==
    CASE arg \in {Some("en"), Some("zh")} -> OsCalls \ {"fgToggle"}
      [] arg = Some("--toggle") -> OsCalls \ {"enumOk", "countSame"}
      [] OTHER -> {"fgQuery"}

Fresh(f, p) == [file |-> f, pending |-> p, ops |-> <<>>]

NoUndo == [phase |-> "idle", hkl |-> NullHKL, place |-> 0]

Init ==
    /\ file \in InitialFiles
    /\ active \in Handles \cup {NullHKL}
    /\ installed \in Enumerations
    /\ pending = <<>>
    /\ last = [fn |-> "none", cmd |-> None, res |-> Ok(""), ops |-> <<>>,
               posted |-> <<>>, file0 |-> file, active0 |-> active]
    /\ undo = NoUndo
    /\ input = <<>>
    /\ output = None

\* One run of the program with argument arg.
Run(arg) ==
    /\ Len(pending) < MaxPending
    /\ \E e \in OutcomesOf(CallsOf(arg)) :
         \E r \in {main(Fresh(file, pending), arg, e, active, installed)} :
            /\ file' = r.st.file
            /\ pending' = r.st.pending
            /\ last' = [fn |-> "main", cmd |-> arg, res |-> r.res, ops |-> r.st.ops,
                        posted |-> SubSeq(r.st.pending, Len(pending) + 1, Len(r.st.pending)),
                        file0 |-> file, active0 |-> active]
            /\ undo' = IF arg \in {Some("en"), Some("zh")} /\ r.res.ok
                       THEN [phase |-> "posted", hkl |-> active, place |-> Len(r.st.pending)]
                       ELSE IF arg = Some("--toggle") /\ undo.phase = "applied"
                       THEN [undo EXCEPT !.phase = "toggled"]
                       ELSE NoUndo
    /\ UNCHANGED <<active, installed, input, output>>

CmdEn == Run(Some("en"))
CmdZh == Run(Some("zh"))
CmdToggle == Run(Some("--toggle"))
CmdCurrent == Run(Some("--current"))
CmdList == Run(Some("--list"))
CmdUnknown == Run(Some("ja"))
CmdNoArgument == Run(None)

\* A call of the library's print_langs.
CallPrintLangs ==
    /\ \E e \in OutcomesOf({"enumOk", "countSame"}) :
         \E r \in {print_langs(Fresh(file, pending), e, installed)} :
            /\ file' = r.st.file
            /\ pending' = r.st.pending
            /\ last' = [fn |-> "print_langs", cmd |-> None,
                        res |-> IF r.res.ok THEN Ok("list") ELSE r.res,
                        ops |-> r.st.ops,
                        posted |-> SubSeq(r.st.pending, Len(pending) + 1, Len(r.st.pending)),
                        file0 |-> file, active0 |-> active]
    /\ undo' = NoUndo
    /\ UNCHANGED <<active, installed, input, output>>

\* The request at the head of the queue leaves it; the undo in progress
\* learns whether it was its own request and whether it was applied.
Served(applied) ==
    IF undo.phase = "toggled" THEN NoUndo
    ELSE IF undo.phase # "posted" THEN undo
    ELSE IF undo.place > 1 THEN [undo EXCEPT !.place = @ - 1]
    ELSE IF applied THEN [undo EXCEPT !.phase = "applied", !.place = 0]
    ELSE NoUndo

\* The foreground window applies the oldest request: WM_INPUTLANGCHANGEREQUEST
\* is asynchronous and unconfirmed.
OsApply ==
    /\ Len(pending) > 0
    /\ Head(pending) \in Handles
    /\ active' = Head(pending)
    /\ pending' = Tail(pending)
    /\ undo' = Served(TRUE)
    /\ UNCHANGED <<file, installed, last, input, output>>

\* The foreground window drops the oldest request.
OsIgnore ==
    /\ Len(pending) > 0
    /\ pending' = Tail(pending)
    /\ undo' = Served(FALSE)
    /\ UNCHANGED <<file, active, installed, last, input, output>>

\* The user changes the layout by other means.
UserSwitch ==
    /\ \E h \in Handles \ {active} : active' = h
    /\ UNCHANGED <<file, installed, pending, last, undo, input, output>>

Next ==
    \/ CmdEn
    \/ CmdZh
    \/ CmdToggle
    \/ CmdCurrent
    \/ CmdList
    \/ CmdUnknown
    \/ CmdNoArgument
    \/ CallPrintLangs
    \/ OsApply
    \/ OsIgnore
    \/ UserSwitch

Spec == Init /\ [][Next]_vars

----------------------------------------------------------------------------
(* The state store alone: saves and loads of the state file. *)

StoreHandles ==
    {<<a, b, c, d>> : a \in {0, 10, 1033, 65535}, b \in {0, 57376}, c, d \in {0, 65535}}

\* What the state file may hold that the program has not written.
StoreFiles ==
    { NoFile, Some(<<>>), Some(<<"z", "h">>), Some(<<"4", "0", "9", " ">>),
      Some(<<"0", "x", "4", "0", "9">>), Some(<<"-", "4", "0", "9">>),
      Some(<<"+">>), Some(<<"+", "4", "0", "9">>), Some(<<"e", "0", "2", "0", "0", "8", "0", "4">>),
      Some(<<"0", "0", "4", "0", "9">>),
      Some(<<"F", "F", "F", "F", "F", "F", "F", "F", "F", "F", "F", "F", "F", "F", "F", "F">>),
      Some(<<"1", "0", "0", "0", "0", "0", "0", "0", "0", "0", "0", "0", "0", "0", "0", "0", "0">>) }

InitStore ==
    /\ file \in StoreFiles
    /\ active = NullHKL
    /\ installed = <<>>
    /\ pending = <<>>
    /\ last = None
    /\ undo = None
    /\ input = None
    /\ output = None

\* save_current_layout(hkl); input remembers the handle once it is written.
StoreSave ==
    /\ \E hkl \in StoreHandles, e \in Outcomes :
         \E r \in {save_current_layout(Fresh(file, <<>>), hkl, e)} :
            /\ file' = r.st.file
            /\ input' = IF r.res.ok THEN Some(hkl) ELSE None
    /\ output' = None
    /\ UNCHANGED <<active, installed, pending, last, undo>>

\* load_saved_layout(); output is its result.
StoreLoad ==
    /\ output = None
    /\ output' = Some(load_saved_layout(Fresh(file, <<>>)).res)
    /\ UNCHANGED <<file, active, installed, pending, last, undo, input>>

NextStore == StoreSave \/ StoreLoad

SpecStore == InitStore /\ [][NextStore]_vars

----------------------------------------------------------------------------
(* The switcher alone: switch_input_method on an identifier and an         *)
(* enumeration.                                                            *)

H_JA == <<1041, 1041, 0, 0>>            \* 0x04110411
H_ES == <<3082, 3082, 0, 0>>            \* 0x0C0A0C0A
H_DV == <<1033, 61442, 0, 0>>           \* 0xF0020409

SwitchHandles == {H_EN, H_DV, H_ZH, H_IME, H_JA, H_ES}

\* The identifiers From<u32> yields, among them one of more than 16 bits.
SwitchIds ==
    {FromU32(v) : v \in {U32(1033), U32(2052), U32(1028), U32(1041), U32(1042),
                         U32(1036), U32(1031), U32(3082), U32(0), <<1033, 1>>}}

InitSwitch ==
    /\ file = NoFile
    /\ active = NullHKL
    /\ installed \in Orders(SwitchHandles, MaxLayouts)
    /\ pending = <<>>
    /\ last = None
    /\ undo = None
    /\ input \in SwitchIds
    /\ output = None

\* switch_input_method(input); last is the trace of its OS calls.
CallSwitchInputMethod ==
    /\ output = None
    /\ \E e \in Outcomes :
         \E r \in {switch_input_method(Fresh(file, pending), input, e, installed)} :
            /\ file' = r.st.file
            /\ pending' = r.st.pending
            /\ last' = r.st.ops
            /\ output' = Some(r.res)
    /\ UNCHANGED <<active, installed, undo, input>>

NextSwitch == CallSwitchInputMethod

SpecSwitch == InitSwitch /\ [][NextSwitch]_vars

----------------------------------------------------------------------------
(* The language identifier applied to one argument. *)

SmallAlphabet == {"0", "x", "1", "9", "f", "+", "-", "e", "N", "Z", "h"}

RECURSIVE TextsUpTo(_)
TextsUpTo(n) ==
    IF n = 0 THEN {<<>>}
    ELSE LET shorter == TextsUpTo(n - 1)
         IN shorter \cup {Append(t, c) : t \in {u \in shorter : Len(u) = n - 1},
                                         c \in SmallAlphabet}

LangSamples ==
    { <<"e", "n">>, <<"E", "N">>, <<"z", "h">>, <<"z", "h", "-", "c", "n">>,
      <<"Z", "H", "-", "T", "W">>, <<"z", "h", "-", "t", "w">>, <<"j", "a">>,
      <<"j", "p">>, <<"k", "o">>, <<"K", "o">>, <<"f", "r">>, <<"d", "e">>,
      <<"z", "h", "_", "c", "n">>, <<"e", "n", " ">>, <<"e", "s">>,
      <<"-", "-", "t", "o", "g", "g", "l", "e">>,
      <<"0", "x", "0", "4", "0", "9">>, <<"0", "x", "4", "0", "C">>,
      <<"0", "x", "8", "0", "4">>, <<"0", "X", "4", "0", "9">>,
      <<"0", "x", "0", "c", "0", "a">>, <<"0", "x", "+", "4", "1", "1">>,
      <<"0", "x", "g">>, <<"0", "x", "4", "0", "9", "h">>,
      <<"0", "x", "F", "F", "F", "F">>, <<"0", "x", "1", "0", "0", "0", "0">>,
      <<"0", "x", "1", "0", "4", "0", "9">>,
      <<"0", "x", "f", "f", "f", "f", "f", "f", "f", "f">>,
      <<"0", "x", "1", "0", "0", "0", "0", "0", "0", "0", "0">>,
      <<"0", "x", "0", "0", "0", "0", "0", "0", "0", "4", "0", "7">>,
      <<"1", "0", "3", "3">>, <<"2", "0", "5", "2">>, <<"0", "1", "0", "4", "2">>,
      <<"+", "1", "0", "2", "8">>, <<"3", "0", "8", "2">>, <<"1", "0", "3", "3", "a">>,
      <<"6", "5", "5", "3", "5">>, <<"6", "5", "5", "3", "6">>,
      <<"4", "2", "9", "4", "9", "6", "7", "2", "9", "5">>,
      <<"4", "2", "9", "4", "9", "6", "7", "2", "9", "6">>,
      <<"9", "9", "9", "9", "9", "9", "9", "9", "9", "9">>,
      <<"1", "2", "3", "4", "5", "6", "7", "8", "9", "0", "1">> }

LangInputs == LangSamples \cup TextsUpTo(MaxLen)

InitLang ==
    /\ file = NoFile
    /\ active = NullHKL
    /\ installed = <<>>
    /\ pending = <<>>
    /\ last = None
    /\ undo = None
    /\ input \in LangInputs
    /\ output = None

LangTryFrom ==
    /\ output = None
    /\ output' = Some(TryFrom(input))
    /\ UNCHANGED <<file, active, installed, pending, last, undo, input>>

NextLang == LangTryFrom

SpecLang == InitLang /\ [][NextLang]_vars

----------------------------------------------------------------------------
(* What the language identifier is expected to return. *)

HexChars == {"0", "1", "2", "3", "4", "5", "6", "7", "8", "9",
             "a", "b", "c", "d", "e", "f", "A", "B", "C", "D", "E", "F"}
DecChars == {"0", "1", "2", "3", "4", "5", "6", "7", "8", "9"}

IsDigitText(t, chars) == Len(t) > 0 /\ \A i \in 1..Len(t) : t[i] \in chars

RECURSIVE StripZeros(_)
StripZeros(t) ==
    IF Len(t) > 0 /\ t[1] = "0" THEN StripZeros(Tail(t)) ELSE t

UpperText(t) ==
    [i \in 1..Len(t) |->
        IF \E k \in 1..Len(LowerLetters) : LowerLetters[k] = t[i]
        THEN UpperLetters[CHOOSE k \in 1..Len(LowerLetters) : LowerLetters[k] = t[i]]
        ELSE t[i]]

\* The number n is the one the digits t write in the radix.
Writes(t, radix, n) == FormatDigits(n, radix) = StripZeros(UpperText(t))

\* The digits t write a number of at most 32 bits.
MaxU32Dec == <<"4", "2", "9", "4", "9", "6", "7", "2", "9", "5">>

RECURSIVE TextLeq(_, _)
TextLeq(a, b) ==
    \/ Len(a) = 0
    \/ ToDigit(a[1], 10) < ToDigit(b[1], 10)
    \/ a[1] = b[1] /\ TextLeq(Tail(a), Tail(b))

FitsU32(t, radix) ==
    LET d == StripZeros(t)
    IN IF radix = 16 THEN Len(d) <= 8
       ELSE Len(d) < Len(MaxU32Dec) \/ (Len(d) = Len(MaxU32Dec) /\ TextLeq(d, MaxU32Dec))

NamedIds == {EN, ZH, Zhtw, JA, KO, FR, DE}

\* r is the identifier of the number the digits t write: a named
\* identifier when the number has one, Other of the number otherwise.
IsIdOf(r, t, radix) ==
    /\ r.ok
    /\ Writes(t, radix, Discriminant(r.val))
    /\ r.val \in NamedIds \/
         (r.val.tag = "Other" /\ \A id \in NamedIds : Discriminant(id) # r.val.v)

TagTable ==
    { <<<<"e", "n">>, EN>>, <<<<"z", "h">>, ZH>>, <<<<"z", "h", "-", "t", "w">>, Zhtw>>,
      <<<<"j", "a">>, JA>>, <<<<"j", "p">>, JA>>, <<<<"k", "o">>, KO>>,
      <<<<"f", "r">>, FR>>, <<<<"d", "e">>, DE>> }

TagTableCn == TagTable \cup { <<<<"z", "h", "-", "c", "n">>, ZH>> }

Looked(table, s) == {e \in table : e[1] = to_lowercase(s)}

\* An optional "+" dropped.
Unsigned(t) == IF Len(t) > 0 /\ t[1] = "+" THEN Tail(t) ELSE t

\* C6 as stated: the result of LangID::try_from on every string is the
\* table's identifier for the eight tags (compared without case), the
\* identifier of the number for "0x" and hexadecimal digits or for decimal
\* digits, and Unsupported carrying the string for every other string.
C6_TryFromAsStated ==
    IsSome(output) =>
        LET r == Get(output)
            hex == strip_prefix(input, <<"0", "x">>)
        IN IF Looked(TagTable, input) # {}
           THEN \A e \in Looked(TagTable, input) : r = Ok(e[2])
           ELSE IF hex.some /\ IsDigitText(hex.rest, HexChars)
           THEN IsIdOf(r, hex.rest, 16)
           ELSE IF IsDigitText(input, DecChars)
           THEN IsIdOf(r, input, 10)
           ELSE r = Unsupported(input)

\* C6 amended: the result of LangID::try_from on every string is the
\* table's identifier for the eight tags and for zh-cn (compared without
\* case); the identifier of the number for "0x" followed by an optional "+"
\* and hexadecimal digits, or for an optional "+" and decimal digits, when
\* the number fits 32 bits; and Unsupported carrying the string otherwise.
C6_TryFromTable ==
    IsSome(output) =>
        LET r == Get(output)
            hex == strip_prefix(input, <<"0", "x">>)
        IN IF Looked(TagTableCn, input) # {}
           THEN \A e \in Looked(TagTableCn, input) : r = Ok(e[2])
           ELSE IF /\ hex.some
                   /\ IsDigitText(Unsigned(hex.rest), HexChars)
                   /\ FitsU32(Unsigned(hex.rest), 16)
           THEN IsIdOf(r, Unsigned(hex.rest), 16)
           ELSE IF IsDigitText(Unsigned(input), DecChars) /\ FitsU32(Unsigned(input), 10)
           THEN IsIdOf(r, Unsigned(input), 10)
           ELSE r = Unsupported(input)

C6_Witness ==
    \/ input = <<"z", "h", "-", "c", "n">> /\ output = Some(Ok(ZH))
    \/ input = <<"0", "x", "+", "4", "1", "1">> /\ output = Some(Ok(JA))

\* C7: every identifier LangID::try_from returns is a 16-bit layout
\* identifier: its number is at most 0xFFFF.
C7_SixteenBit ==
    IsSome(output) /\ Get(output).ok =>
        \A i \in 2..U32Limbs : Discriminant(Get(output).val)[i] = 0

----------------------------------------------------------------------------
(* What the state store and the commands are expected to do. *)

PadLeft(t, n) ==
    [i \in 1..n |-> IF i <= n - Len(t) THEN "0" ELSE t[i - (n - Len(t))]]

\* The handle that at most sixteen hexadecimal digits write: four digits
\* to a limb.
HexHandle(t) ==
    LET p == PadLeft(t, 4 * U64Limbs)
        D(i) == ToDigit(p[i], 16)
    IN [k \in 1..U64Limbs |->
          LET b == 4 * (U64Limbs - k)
          IN D(b + 1) * 4096 + D(b + 2) * 256 + D(b + 3) * 16 + D(b + 4)]

\* The text is the hexadecimal text of the handle, and nothing else.
IsHexTextOf(text, hkl) ==
    /\ IsDigitText(text, HexChars)
    /\ Len(text) <= 4 * U64Limbs
    /\ HexHandle(text) = hkl

\* The file holds a handle: hexadecimal digits of at most 64 bits, after
\* an optional "+".
HoldsHandle(f) ==
    /\ IsSome(f)
    /\ IsDigitText(Unsigned(Get(f)), HexChars)
    /\ Len(StripZeros(Unsigned(Get(f)))) <= 4 * U64Limbs

HandleIn(f) == HexHandle(StripZeros(Unsigned(Get(f))))

Has(ops, op) == \E i \in 1..Len(ops) : ops[i] = op

\* Every op of the set `later` comes after an op `first`.
After(ops, first, later) ==
    \A i \in 1..Len(ops) : ops[i] \in later => \E j \in 1..(i - 1) : ops[j] = first

\* C5 as stated: a save of h followed by a load returns h; the file
\* written holds only the hexadecimal text of h; and a load fails when the
\* file is missing or its content is not entirely hexadecimal text.
C5_RoundTripAsStated ==
    /\ IsSome(input) => IsSome(file) /\ IsHexTextOf(Get(file), Get(input))
    /\ IsSome(input) /\ IsSome(output) => Get(output) = Ok(Get(input))
    /\ IsSome(output) /\ (~IsSome(file) \/ ~IsDigitText(Get(file), HexChars))
          => ~Get(output).ok

\* C5 amended: a save of h followed by a load returns h; the file written
\* holds only the hexadecimal text of h; and a load fails when the file is
\* missing or its content is not entirely hexadecimal text after an
\* optional leading "+".
C5_RoundTrip ==
    /\ IsSome(input) => IsSome(file) /\ IsHexTextOf(Get(file), Get(input))
    /\ IsSome(input) /\ IsSome(output) => Get(output) = Ok(Get(input))
    /\ IsSome(output) /\ (~IsSome(file) \/ ~IsDigitText(Unsigned(Get(file)), HexChars))
          => ~Get(output).ok

C5_Witness ==
    /\ IsSome(input)
    /\ Get(input) = <<1033, 57376, 65535, 65535>>
    /\ output = Some(Ok(Get(input)))

\* The enumeration places whose low 16 bits are the number of the identifier.
Matches(id) ==
    {i \in 1..Len(installed) :
        /\ installed[i][1] = Discriminant(id)[1]
        /\ Discriminant(id)[2] = 0}

\* C8: switch_input_method(id) posts a request only for the first
\* enumerated handle whose low 16 bits are the number of id, posts it
\* whenever there is one and the window takes it, and returns an error and
\* posts nothing when the enumeration is empty or holds no such handle.
C8_SwitchPostsFirstMatch ==
    IsSome(output) =>
        /\ pending # <<>> =>
              /\ Matches(input) # {}
              /\ pending = <<installed[CHOOSE i \in Matches(input) :
                                          \A j \in Matches(input) : i <= j]>>
        /\ Matches(input) = {} => ~Get(output).ok /\ pending = <<>>
        /\ Get(output).ok => pending # <<>>
        /\ Matches(input) # {} /\ pending = <<>> =>
              \/ Has(last, "enum_failed")
              \/ Has(last, "no_window")
              \/ Has(last, "post_failed")

C8_Witness ==
    /\ input = ZH
    /\ installed = <<H_IME, H_ZH>>
    /\ output = Some(Ok(Unit))
    /\ pending = <<H_IME>>

IsToggle == last.fn = "main" /\ last.cmd = Some("--toggle")
IsLanguage == last.fn = "main" /\ last.cmd \in {Some("en"), Some("zh")}

\* C1: after a --toggle that has completed successfully, the request it
\* posted carries the handle the state file held when it started, and the
\* state file holds the handle that was active when it started.
C1_ToggleSwaps ==
    IsToggle /\ last.res.ok =>
        /\ HoldsHandle(last.file0)
        /\ last.posted = <<HandleIn(last.file0)>>
        /\ IsSome(file)
        /\ IsHexTextOf(Get(file), last.active0)

C1_Witness ==
    /\ IsToggle
    /\ last.res.ok
    /\ last.active0 = H_EN
    /\ last.posted = <<H_IME>>
    /\ file = Some(format_X(H_EN))

\* C2: a --toggle that directly follows a successful language command run
\* while layout A was active, whose request the OS has applied, posts a
\* request for A and no other (it posts none only when the foreground
\* window is gone or PostMessageW fails).
C2_OneStepUndo ==
    undo.phase = "toggled" =>
        /\ IsToggle
        /\ \A i \in 1..Len(last.posted) : last.posted[i] = undo.hkl
        /\ \/ last.posted = <<undo.hkl>>
           \/ Has(last.ops, "no_window")
           \/ Has(last.ops, "post_failed")

C2_Witness ==
    /\ undo.phase = "toggled"
    /\ undo.hkl = H_IME
    /\ last.active0 = H_EN
    /\ last.posted = <<H_IME>>
    /\ last.res.ok

\* C3: a run of --current or --list, and a call of print_langs, leaves the
\* state file as it was, posts no request and makes only read-only OS
\* queries, whether it succeeds or fails.
C3_ReadOnly ==
    \/ last.fn = "main" /\ last.cmd \in {Some("--current"), Some("--list")}
    \/ last.fn = "print_langs"
    => /\ file = last.file0
       /\ last.posted = <<>>
       /\ \A i \in 1..Len(last.ops) :
             last.ops[i] \in {"query", "no_window", "enum", "enum_failed"}

C3_Witness ==
    /\ last.fn = "main"
    /\ last.cmd = Some("--current")
    /\ last.res = Ok("zh")
    /\ last.active0 = H_IME
    /\ IsSome(file)

\* C4: a run with no argument prints the usage text and exits with status
\* 0 in every state of the OS and of the state file, writes nothing and
\* posts nothing.
C4_UsageExitsZero ==
    last.fn = "main" /\ last.cmd = None =>
        /\ last.res = Ok("usage")
        /\ ExitStatus(last.res) = 0
        /\ file = last.file0
        /\ last.posted = <<>>

\* C9: a language command writes the state file before it looks the layout
\* up: once the write has succeeded the file holds the handle that was
\* active at the start, whether the switch then succeeds or fails; and
\* when the write fails the command returns an error without enumerating
\* the layouts or posting a request.
C9_SavesBeforeLookup ==
    IsLanguage =>
        /\ Has(last.ops, "write") =>
              IsSome(file) /\ IsHexTextOf(Get(file), last.active0)
        /\ Has(last.ops, "write_failed") =>
              /\ ~last.res.ok
              /\ last.posted = <<>>
              /\ ~Has(last.ops, "enum") /\ ~Has(last.ops, "enum_failed")
        /\ After(last.ops, "write", {"enum", "enum_failed", "post", "post_failed"})
        /\ last.res.ok => Has(last.ops, "write")

C9_Witness ==
    /\ IsLanguage
    /\ Has(last.ops, "write")
    /\ Has(last.ops, "enum")
    /\ ~last.res.ok
    /\ last.posted = <<>>
    /\ file # last.file0

====
